---- MODULE Spec2Model ----
(***************************************************************************)
(* Straight-line depreciation scheduling and report filtering, modelled    *)
(* from src/app.py (class Asset, generate_depreciation_report, index).     *)
(*                                                                         *)
(* Amounts are Python floats.  A float is modelled as a binary floating-   *)
(* point number with round-to-nearest-even, exactly as IEEE-754 arithmetic *)
(* rounds, at a mantissa of Precision bits instead of 53: a value is an    *)
(* integer count of units of 2^-FracBits, and it is representable when it  *)
(* has at most Precision significant bits.  Strings are tuples of one-     *)
(* character strings, so that strip() and lower() are computed.  Python's  *)
(* None is the empty tuple and a present value x is <<x>>.                 *)
(***************************************************************************)
EXTENDS Integers, Sequences, FiniteSets, TLC

\* ---------------------------------------------------------------- bounds
\* Mantissa width of the modelled float format (IEEE double: 53).
Precision == 24
\* Number of fractional bits: 1.0 is 2^FracBits units.
FracBits == 14
\* Largest life_years drawn for an input record.
MaxLife == 5
\* How many times a script calls generate_depreciation_report on one list.
MaxCalls == 2

\* ---------------------------------------------------------- Python values
None == <<>>
Some(x) == <<x>>
IsNone(o) == o = <<>>
Get(o) == o[1]

Max(a, b) == IF a >= b THEN a ELSE b
\* Python's min(a, b)
Min(a, b) == IF b < a THEN b ELSE a
Abs(x) == IF x < 0 THEN -x ELSE x

\* ----------------------------------------------------------------- dates
Date(y, m, d) == [year |-> y, month |-> m, day |-> d]
\* datetime.date.__lt__
DateLt(a, b) ==
    \/ a.year < b.year
    \/ a.year = b.year /\ a.month < b.month
    \/ a.year = b.year /\ a.month = b.month /\ a.day < b.day
\* datetime.date(year, 12, 31)
YearEnd(y) == Date(y, 12, 31)

\* --------------------------------------------------------------- strings
IsSpace(c) == c = " "
RECURSIVE LStrip(_)
LStrip(s) == IF s # <<>> /\ IsSpace(Head(s)) THEN LStrip(Tail(s)) ELSE s
RECURSIVE RStrip(_)
RStrip(s) ==
    IF s # <<>> /\ IsSpace(s[Len(s)]) THEN RStrip(SubSeq(s, 1, Len(s) - 1)) ELSE s
\* str.strip()
Strip(s) == RStrip(LStrip(s))
LowerChar(c) ==
    CASE c = "A" -> "a"
      [] c = "B" -> "b"
      [] c = "F" -> "f"
      [] c = "E" -> "e"
      [] c = "Q" -> "q"
      [] OTHER -> c
\* str.lower()
Lower(s) == [i \in 1..Len(s) |-> LowerChar(s[i])]

\* ---------------------------------------------------------------- floats
RECURSIVE Pow2(_)
Pow2(k) == IF k <= 0 THEN 1 ELSE 2 * Pow2(k - 1)
RECURSIVE BitLen(_)
BitLen(n) == IF n <= 0 THEN 0 ELSE 1 + BitLen(n \div 2)
\* 1.0 in units
One == Pow2(FracBits)
\* num/den (num >= 0, den > 0) rounded to the nearest integer, ties to even
RoundHalfEven(num, den) ==
    LET q == num \div den
        r == num % den
    IN  IF 2 * r < den THEN q
        ELSE IF 2 * r > den THEN q + 1
        ELSE IF q % 2 = 0 THEN q ELSE q + 1
\* whole + fnum/fden units (whole >= 0, 0 <= fnum < fden) rounded to the nearest
\* representable float, ties to the even mantissa
RoundMixed(whole, fnum, fden) ==
    LET scale == Pow2(Max(BitLen(whole) - Precision, 0))
        q == whole \div scale
        r == whole % scale
        twice == 2 * (r * fden + fnum)
    IN  IF twice < scale * fden THEN q * scale
        ELSE IF twice > scale * fden THEN (q + 1) * scale
        ELSE IF q % 2 = 0 THEN q * scale ELSE (q + 1) * scale
\* num/den units (num >= 0, den > 0) rounded to the nearest representable float
FRoundPos(num, den) == RoundMixed(num \div den, num % den, den)
\* the float nearest to num/den units (den > 0)
FRound(num, den) == IF num < 0 THEN -FRoundPos(-num, den) ELSE FRoundPos(num, den)
\* float subtraction a - b
FSub(a, b) == FRound(a - b, 1)
\* float addition a + b
FAdd(a, b) == FRound(a + b, 1)
\* float division a / n for a non-zero integer n
FDiv(a, n) == IF n < 0 THEN FRound(-a, -n) ELSE FRound(a, n)
\* float(text) for a decimal text given as a whole number of cents >= 0
ParseFloat(cents) ==
    LET f == (cents % 100) * One
    IN  RoundMixed((cents \div 100) * One + f \div 100, f % 100, 100)
\* x >= 0 as a whole number of cents, the nearest one, ties to even
Cents(x) == 100 * (x \div One) + RoundHalfEven(100 * (x % One), One)
\* round(x, 2): the nearest two-decimal number, as a float
Round2(x) == IF x < 0 THEN -ParseFloat(Cents(-x)) ELSE ParseFloat(Cents(x))

\* ----------------------------------------------------------------- state
VARIABLES
    entry,                  \* "index" (web form) or "script" (direct caller)
    rows,                   \* the input records: CSV rows or Asset(...) arguments
    assets,                 \* the list of Asset objects
    item_no,                \* the item filter: None or Some(text)
    purchase_date_range,    \* the date filter: None or Some(<<start, end>>)
    pc,                     \* control position
    idx,                    \* generate_depreciation_report: index of `asset`
    year,                   \* calculate_depreciation: the loop variable
    end_year,               \* calculate_depreciation: the end of range(...)
    depreciation_per_year,  \* calculate_depreciation: the annual amount
    data,                   \* calculate_depreciation: its report_data
    report_data,            \* generate_depreciation_report: its report_data
    result,                 \* what generate_depreciation_report returned
    file,                   \* the rows this call wrote to the report file, or None
    response,               \* what index answered
    error,                  \* the exception that left the run, or None
    calls,                  \* calls of generate_depreciation_report so far
    row_asset,              \* history: for each row of report_data, its asset's index
    log                     \* history: what happened to each asset in each call

vars == <<entry, rows, assets, item_no, purchase_date_range, pc, idx, year,
          end_year, depreciation_per_year, data, report_data, result, file,
          response, error, calls, row_asset, log>>

FA == <<"F", "A">>
NoDataMessage == "No valid depreciation data available."
ReportPath == "static/depreciation_report.csv"

\* Asset.__init__ with last_depr_date and remaining_amount left at their defaults
Asset(item, type, purchase_date, cost, carcass_value, life_years) ==
    [item_no |-> item, item_type |-> type, purchase_date |-> purchase_date,
     cost |-> cost, carcass_value |-> carcass_value, life_years |-> life_years,
     last_depr_date |-> purchase_date, remaining_amount |-> cost]

\* a validate that looks at the purchase date only
ValidateDateOnly(a) ==
    IF IsNone(a.purchase_date)
    THEN [ok |-> FALSE, reason |-> "Missing purchase date"]
    ELSE [ok |-> TRUE, reason |-> "None"]

\* Asset.validate: (is_valid, message); the message is kept by the cause it names
Validate(a) ==
    IF a.item_type # FA THEN [ok |-> FALSE, reason |-> "Not a Fixed Asset (FA)"]
    ELSE IF IsNone(a.purchase_date)
         THEN [ok |-> FALSE, reason |-> "Missing purchase date"]
         ELSE [ok |-> TRUE, reason |-> "None"]

\* Asset.straight_line_depreciation (life_years # 0)
StraightLineDepreciation(a) == FDiv(FSub(a.cost, a.carcass_value), a.life_years)

\* a break test that stops only below the floor
FloorReachedStrict(a) == a.remaining_amount < a.carcass_value

\* the loop's break test
FloorReached(a) == a.remaining_amount <= a.carcass_value

\* depreciation_value of one iteration
DepreciationValue(a, perYear) ==
    Min(perYear, FSub(a.remaining_amount, a.carcass_value))

\* the asset after one iteration's two assignments
Depreciate(a, value, y) ==
    [a EXCEPT !.remaining_amount = FSub(a.remaining_amount, value),
              !.last_depr_date = Some(YearEnd(y))]

\* a row that carries the remaining amount of before the decrement
MakeRowBeforeDecrement(a, y, value) ==
    [item_no |-> a.item_no, purchase_date |-> a.purchase_date, cost |-> a.cost,
     carcass_value |-> a.carcass_value, life_years |-> a.life_years, year |-> y,
     depreciation |-> Round2(value),
     remaining |-> Round2(FAdd(a.remaining_amount, value)),
     last_depr_date |-> a.last_depr_date]

\* the row appended in one iteration; a is the asset after the assignments
MakeRow(a, y, value) ==
    [item_no |-> a.item_no, purchase_date |-> a.purchase_date, cost |-> a.cost,
     carcass_value |-> a.carcass_value, life_years |-> a.life_years, year |-> y,
     depreciation |-> Round2(value), remaining |-> Round2(a.remaining_amount),
     last_depr_date |-> a.last_depr_date]

\* `if item_no and item_no.strip()`
ItemFilterActive(f) == ~IsNone(f) /\ Get(f) # <<>> /\ Strip(Get(f)) # <<>>

\* an item filter that compares the texts as they are (src/tmp/main1.py)
ItemSkippedExact(a, f) == ItemFilterActive(f) /\ a.item_no # Get(f)

\* the item filter's `continue`
ItemSkipped(a, f) ==
    ItemFilterActive(f) /\ Lower(Strip(a.item_no)) # Lower(Strip(Get(f)))

\* a date filter whose bounds are exclusive
DateCheckExclusive(a, range) ==
    IF IsNone(range) THEN "pass"
    ELSE LET start_date == Get(range)[1]
             end_date == Get(range)[2]
         IN  IF ~IsNone(start_date) /\ IsNone(a.purchase_date) THEN "TypeError"
             ELSE IF ~IsNone(start_date)
                     /\ ~DateLt(Get(start_date), Get(a.purchase_date)) THEN "skip"
             ELSE IF ~IsNone(end_date) /\ IsNone(a.purchase_date) THEN "TypeError"
             ELSE IF ~IsNone(end_date)
                     /\ ~DateLt(Get(a.purchase_date), Get(end_date)) THEN "skip"
             ELSE "pass"

\* the date filter: "pass", "skip" (continue) or "TypeError" (None < date)
DateCheck(a, range) ==
    IF IsNone(range) THEN "pass"
    ELSE LET start_date == Get(range)[1]
             end_date == Get(range)[2]
         IN  IF ~IsNone(start_date) /\ IsNone(a.purchase_date) THEN "TypeError"
             ELSE IF ~IsNone(start_date)
                     /\ DateLt(Get(a.purchase_date), Get(start_date)) THEN "skip"
             ELSE IF ~IsNone(end_date) /\ IsNone(a.purchase_date) THEN "TypeError"
             ELSE IF ~IsNone(end_date)
                     /\ DateLt(Get(end_date), Get(a.purchase_date)) THEN "skip"
             ELSE "pass"

\* index: the loop over the CSV rows; the first row without a purchase date
\* ends the request with an error message, a row that is not FA is left out
RECURSIVE ReadAssets(_, _)
ReadAssets(rs, acc) ==
    IF rs = <<>> THEN [missing_date |-> FALSE, assets |-> acc]
    ELSE LET r == Head(rs)
         IN  IF IsNone(r.purchase_date) THEN [missing_date |-> TRUE, assets |-> acc]
             ELSE IF Strip(r.item_type) # FA THEN ReadAssets(Tail(rs), acc)
             ELSE ReadAssets(Tail(rs),
                      Append(acc, Asset(r.item_no, r.item_type, r.purchase_date,
                                        ParseFloat(r.cost), ParseFloat(r.carcass_value),
                                        r.life_years)))

\* a script's list of Asset(...) objects
MakeAssets(rs) ==
    [i \in 1..Len(rs) |->
        Asset(rs[i].item_no, rs[i].item_type, rs[i].purchase_date,
              ParseFloat(rs[i].cost), ParseFloat(rs[i].carcass_value),
              rs[i].life_years)]

LogEntry(event, i, before, after, emitted) ==
    [call |-> calls, asset |-> i, event |-> event, before |-> before,
     after |-> after, rows |-> emitted]

\* ---------------------------------------------------------------- inputs
A004 == <<"A", "0", "0", "4">>
A004Padded == <<" ", "a", "0", "0", "4", " ">>
B1 == <<"B", "1">>
Blank == <<" ", " ">>
RawRecord(item, type, pd, cost, carcass, life) ==
    [item_no |-> item, item_type |-> type, purchase_date |-> pd, cost |-> cost,
     carcass_value |-> carcass, life_years |-> life]

StartState(e, rs, f, range) ==
    /\ entry = e
    /\ rows = rs
    /\ assets = IF e = "script" THEN MakeAssets(rs) ELSE <<>>
    /\ item_no = f
    /\ purchase_date_range = range
    /\ pc = IF e = "script" THEN "call" ELSE "index_read"
    /\ idx = 0
    /\ year = 0
    /\ end_year = 0
    /\ depreciation_per_year = 0
    /\ data = <<>>
    /\ report_data = <<>>
    /\ result = None
    /\ file = None
    /\ response = None
    /\ error = None
    /\ calls = 0
    /\ row_asset = <<>>
    /\ log = <<>>

EQ == <<"E", "Q">>
FAPadded == <<"F", "A", " ">>
\* what a caller passes as the date range: index always passes a pair
RangeOf(e, range) == IF e = "index" /\ IsNone(range) THEN Some(<<None, None>>) ELSE range

\* one record, amounts and lives varied; three filter settings
ScheduleRecords ==
    { RawRecord(A004, t, pd, c, v, l) :
        t \in {FA, EQ, FAPadded},
        pd \in {None, Some(Date(2020, 1, 1)), Some(Date(2022, 3, 15))},
        c \in {100, 1000, 10000, 1000000},
        v \in {0, 30, 1000, 100000},
        l \in -1..MaxLife }
ScheduleFilters ==
    { <<None, None>>,
      <<Some(B1), Some(<<None, None>>)>>,
      <<Some(A004Padded), Some(<<Some(Date(2022, 1, 1)), Some(Date(2023, 12, 31))>>)>> }

Init ==
    \E e \in {"index", "script"}, r \in ScheduleRecords, f \in ScheduleFilters :
        StartState(e, <<r>>, f[1], RangeOf(e, f[2]))

\* two records out of a few, and the sample list of src/tmp/main.py; the
\* filters varied
ReportRecords ==
    { RawRecord(i, FA, pd, 1000, 0, 2) :
        i \in {A004, A004Padded, B1},
        pd \in {None, Some(Date(2020, 1, 1)), Some(Date(2022, 1, 1)),
                Some(Date(2022, 3, 15)), Some(Date(2024, 6, 1))} }
    \cup { RawRecord(A004, EQ, Some(Date(2022, 3, 15)), 1000, 0, 2),
           RawRecord(A004, FAPadded, Some(Date(2022, 3, 15)), 1000, 0, 2),
           RawRecord(A004, FA, Some(Date(2022, 3, 15)), 1000, 0, 0) }
A001 == <<"A", "0", "0", "1">>
A002 == <<"A", "0", "0", "2">>
A003 == <<"A", "0", "0", "3">>
SampleAssets ==
    << RawRecord(A001, FA, Some(Date(2020, 1, 1)), 1000000, 100000, 5),
       RawRecord(A002, EQ, Some(Date(2021, 5, 1)), 500000, 50000, 3),
       RawRecord(A003, FA, None, 800000, 80000, 4),
       RawRecord(A004, FA, Some(Date(2022, 3, 15)), 1500000, 200000, 6) >>
ItemFilters == {None, Some(<<>>), Some(Blank), Some(A004), Some(A004Padded), Some(B1)}
DateRanges ==
    { None,
      Some(<<None, None>>),
      Some(<<Some(Date(2022, 1, 1)), None>>),
      Some(<<None, Some(Date(2022, 3, 15))>>),
      Some(<<Some(Date(2022, 1, 1)), Some(Date(2023, 12, 31))>>) }

InitReport ==
    \E e \in {"index", "script"}, f \in ItemFilters, range \in DateRanges :
        \/ \E r1 \in ReportRecords, r2 \in ReportRecords :
              StartState(e, <<r1, r2>>, f, RangeOf(e, range))
        \/ StartState(e, SampleAssets, f, RangeOf(e, range))

\* --------------------------------------------------------------- actions
\* index, lines 134-160: build the asset list from the uploaded rows
IndexReadFile ==
    /\ pc = "index_read"
    /\ LET r == ReadAssets(rows, <<>>)
       IN  IF r.missing_date
           THEN /\ response' = Some("error_message")
                /\ pc' = "done"
                /\ UNCHANGED assets
           ELSE /\ assets' = r.assets
                /\ pc' = "call"
                /\ UNCHANGED response
    /\ UNCHANGED <<entry, rows, item_no, purchase_date_range, idx, year, end_year,
                   depreciation_per_year, data, report_data, result, file, error,
                   calls, row_asset, log>>

\* generate_depreciation_report is called: by index, by a script, or by a
\* script again on the same list
GenerateStart ==
    /\ \/ pc = "call"
       \/ pc = "returned" /\ entry = "script" /\ calls < MaxCalls
    /\ pc' = "for_asset"
    /\ idx' = 1
    /\ report_data' = <<>>
    /\ row_asset' = <<>>
    /\ result' = None
    /\ file' = None
    /\ calls' = calls + 1
    /\ UNCHANGED <<entry, rows, assets, item_no, purchase_date_range, year, end_year,
                   depreciation_per_year, data, response, error, log>>

AtAsset == pc = "for_asset" /\ idx <= Len(assets)

\* lines 74-78: the item filter skips the asset
SkipItem ==
    /\ AtAsset
    /\ ItemSkipped(assets[idx], item_no)
    /\ idx' = idx + 1
    /\ log' = Append(log, LogEntry("skip_item", idx, assets[idx], assets[idx], <<>>))
    /\ UNCHANGED <<entry, rows, assets, item_no, purchase_date_range, pc, year, end_year,
                   depreciation_per_year, data, report_data, result, file, response,
                   error, calls, row_asset>>

\* lines 81-88: the date filter skips the asset
SkipDate ==
    /\ AtAsset
    /\ ~ItemSkipped(assets[idx], item_no)
    /\ DateCheck(assets[idx], purchase_date_range) = "skip"
    /\ idx' = idx + 1
    /\ log' = Append(log, LogEntry("skip_date", idx, assets[idx], assets[idx], <<>>))
    /\ UNCHANGED <<entry, rows, assets, item_no, purchase_date_range, pc, year, end_year,
                   depreciation_per_year, data, report_data, result, file, response,
                   error, calls, row_asset>>

\* lines 83, 86: an absent purchase date compared with a date raises TypeError
RaiseTypeError ==
    /\ AtAsset
    /\ ~ItemSkipped(assets[idx], item_no)
    /\ DateCheck(assets[idx], purchase_date_range) = "TypeError"
    /\ pc' = "raised"
    /\ error' = Some("TypeError")
    /\ UNCHANGED <<entry, rows, assets, item_no, purchase_date_range, idx, year, end_year,
                   depreciation_per_year, data, report_data, result, file, response,
                   calls, row_asset, log>>

Scheduled ==
    /\ AtAsset
    /\ ~ItemSkipped(assets[idx], item_no)
    /\ DateCheck(assets[idx], purchase_date_range) = "pass"

\* lines 35-37 and 91-92: validate fails, calculate_depreciation returns None
CalcInvalid ==
    /\ Scheduled
    /\ ~Validate(assets[idx]).ok
    /\ idx' = idx + 1
    /\ log' = Append(log, LogEntry("invalid", idx, assets[idx], assets[idx], <<>>))
    /\ UNCHANGED <<entry, rows, assets, item_no, purchase_date_range, pc, year, end_year,
                   depreciation_per_year, data, report_data, result, file, response,
                   error, calls, row_asset>>

\* lines 31, 39: life_years = 0 divides by zero
RaiseZeroDivision ==
    /\ Scheduled
    /\ Validate(assets[idx]).ok
    /\ assets[idx].life_years = 0
    /\ pc' = "raised"
    /\ error' = Some("ZeroDivisionError")
    /\ UNCHANGED <<entry, rows, assets, item_no, purchase_date_range, idx, year, end_year,
                   depreciation_per_year, data, report_data, result, file, response,
                   calls, row_asset, log>>

\* lines 39-43: the annual amount, the start year, the empty report_data
CalcEnter ==
    /\ Scheduled
    /\ Validate(assets[idx]).ok
    /\ assets[idx].life_years # 0
    /\ depreciation_per_year' = StraightLineDepreciation(assets[idx])
    /\ year' = Get(assets[idx].last_depr_date).year
    /\ end_year' = Get(assets[idx].last_depr_date).year + assets[idx].life_years
    /\ data' = <<>>
    /\ pc' = "for_year"
    /\ log' = Append(log, LogEntry("enter", idx, assets[idx], assets[idx], <<>>))
    /\ UNCHANGED <<entry, rows, assets, item_no, purchase_date_range, idx, report_data,
                   result, file, response, error, calls, row_asset>>

\* lines 43-61: one iteration of the loop over the years
CalcStep ==
    /\ pc = "for_year"
    /\ year < end_year
    /\ ~FloorReached(assets[idx])
    /\ LET value == DepreciationValue(assets[idx], depreciation_per_year)
           after == Depreciate(assets[idx], value, year)
       IN  /\ assets' = [assets EXCEPT ![idx] = after]
           /\ data' = Append(data, MakeRow(after, year, value))
    /\ year' = year + 1
    /\ UNCHANGED <<entry, rows, item_no, purchase_date_range, pc, idx, end_year,
                   depreciation_per_year, report_data, result, file, response, error,
                   calls, row_asset, log>>

\* lines 43-45, 63 and 91-93: the loop ends, the rows join the report
CalcReturn ==
    /\ pc = "for_year"
    /\ year >= end_year \/ FloorReached(assets[idx])
    /\ report_data' = report_data \o data
    /\ row_asset' = row_asset \o [k \in 1..Len(data) |-> idx]
    /\ log' = Append(log, LogEntry("scheduled", idx, log[Len(log)].before,
                                   assets[idx], data))
    /\ idx' = idx + 1
    /\ pc' = "for_asset"
    /\ UNCHANGED <<entry, rows, assets, item_no, purchase_date_range, year, end_year,
                   depreciation_per_year, data, result, file, response, error, calls>>

\* lines 95-96: no rows, the message is returned and nothing is written
ReportNoData ==
    /\ pc = "for_asset"
    /\ idx > Len(assets)
    /\ report_data = <<>>
    /\ result' = Some(NoDataMessage)
    /\ pc' = "returned"
    /\ UNCHANGED <<entry, rows, assets, item_no, purchase_date_range, idx, year, end_year,
                   depreciation_per_year, data, report_data, file, response, error,
                   calls, row_asset, log>>

\* lines 98-105: the rows are written and the path is returned
ReportWrite ==
    /\ pc = "for_asset"
    /\ idx > Len(assets)
    /\ report_data # <<>>
    /\ file' = Some(report_data)
    /\ result' = Some(ReportPath)
    /\ pc' = "returned"
    /\ UNCHANGED <<entry, rows, assets, item_no, purchase_date_range, idx, year, end_year,
                   depreciation_per_year, data, report_data, response, error, calls,
                   row_asset, log>>

\* lines 165-168: index drops the returned value and redirects to the download
IndexRedirect ==
    /\ pc = "returned"
    /\ entry = "index"
    /\ response' = Some("redirect_download")
    /\ pc' = "done"
    /\ UNCHANGED <<entry, rows, assets, item_no, purchase_date_range, idx, year, end_year,
                   depreciation_per_year, data, report_data, result, file, error, calls,
                   row_asset, log>>

Next ==
    \/ IndexReadFile
    \/ GenerateStart
    \/ SkipItem
    \/ SkipDate
    \/ RaiseTypeError
    \/ CalcInvalid
    \/ RaiseZeroDivision
    \/ CalcEnter
    \/ CalcStep
    \/ CalcReturn
    \/ ReportNoData
    \/ ReportWrite
    \/ IndexRedirect

Spec == Init /\ [][Next]_vars

SpecReport == InitReport /\ [][Next]_vars

\* ------------------------------------------------------ claims: helpers
Entries == {log[k] : k \in 1..Len(log)}
ScheduledEntries == {e \in Entries : e.event = "scheduled"}
\* the asset is as __init__ left it
FromCreation(a) ==
    a.remaining_amount = a.cost /\ a.last_depr_date = a.purchase_date
\* the data model's invariants on an asset's amounts and life
WellFormed(a) == a.carcass_value <= a.cost /\ a.life_years > 0
Eligible(a) == a.item_type = FA /\ ~IsNone(a.purchase_date)
\* the rows' depreciation amounts added up, in cents
RECURSIVE SumDepreciationCents(_)
SumDepreciationCents(rs) ==
    IF rs = <<>> THEN 0
    ELSE SumDepreciationCents(Tail(rs)) + Cents(Head(rs).depreciation)
NonIncreasing(rs) ==
    \A k \in 1..(Len(rs) - 1) : rs[k + 1].remaining <= rs[k].remaining
\* the rows of report_data that asset i produced
RowsOfAsset(i) ==
    LET ix == SelectSeq([k \in 1..Len(report_data) |-> k], LAMBDA k : row_asset[k] = i)
    IN  [j \in 1..Len(ix) |-> report_data[ix[j]]]
\* the rows logged for the current call, in the order of the log
RECURSIVE RowsLogged(_)
RowsLogged(n) ==
    IF n = 0 THEN <<>>
    ELSE IF log[n].event = "scheduled" /\ log[n].call = calls
         THEN RowsLogged(n - 1) \o log[n].rows
         ELSE RowsLogged(n - 1)
\* text compared as the claims compare it: trimmed and lower-cased
Norm(text) == Lower(Strip(text))
FilterGiven == ~IsNone(item_no) /\ Strip(Get(item_no)) # <<>>
\* a purchase date before the given start or after the given end
OutsideRange(a) ==
    /\ ~IsNone(purchase_date_range)
    /\ LET start_date == Get(purchase_date_range)[1]
           end_date == Get(purchase_date_range)[2]
       IN  \/ ~IsNone(start_date) /\ DateLt(Get(a.purchase_date), Get(start_date))
           \/ ~IsNone(end_date) /\ DateLt(Get(end_date), Get(a.purchase_date))

\* ---------------------------------------------------------------- claims
\* C1: for every eligible asset scheduled from its creation state, the
\* depreciation amounts of the emitted rows sum to cost - carcass_value and
\* the last emitted row's remaining amount is carcass_value.  Stated for the
\* assets the data model admits (carcass_value <= cost, life_years > 0), the
\* amounts compared to the cent.
C1_SumIsDepreciableBase ==
    \A e \in ScheduledEntries :
        (Eligible(e.before) /\ FromCreation(e.before) /\ WellFormed(e.before)) =>
            /\ SumDepreciationCents(e.rows)
                  = Cents(e.before.cost) - Cents(e.before.carcass_value)
            /\ e.rows # <<>> =>
                  e.rows[Len(e.rows)].remaining = e.before.carcass_value

\* C2: while an asset is scheduled its remaining_amount is never below its
\* carcass_value, and the remaining amount never increases from one emitted
\* row to the next.  Stated for the assets the data model admits.
C2_NeverBelowFloor ==
    /\ \A i \in 1..Len(assets) :
          (Eligible(assets[i]) /\ WellFormed(assets[i])) =>
              assets[i].remaining_amount >= assets[i].carcass_value
    /\ NonIncreasing(data)
    /\ \A e \in ScheduledEntries : NonIncreasing(e.rows)

\* the annual amount is a whole number of cents
EvenlyDivides(a) ==
    (Cents(a.cost) - Cents(a.carcass_value)) % a.life_years = 0

\* C3 as stated: at most life_years rows, and exactly life_years rows if and
\* only if the annual amount evenly divides cost - carcass_value.  Stated for
\* the assets the data model admits.
C3_RowsEqualLifeIffEven ==
    \A e \in ScheduledEntries :
        (Eligible(e.before) /\ FromCreation(e.before) /\ WellFormed(e.before)) =>
            /\ Len(e.rows) <= e.before.life_years
            /\ Len(e.rows) = e.before.life_years <=> EvenlyDivides(e.before)

\* C3 as amended: at most life_years rows and none when life_years <= 0; at
\* least one row if and only if cost > carcass_value and life_years >= 1; and
\* fewer than life_years rows only when remaining_amount has come down to
\* carcass_value.  Whether the annual amount divides evenly plays no part.
C3_RowCount ==
    \A e \in ScheduledEntries :
        (Eligible(e.before) /\ FromCreation(e.before)) =>
            /\ Len(e.rows) <= Max(e.before.life_years, 0)
            /\ Len(e.rows) >= 1 <=>
                  (e.before.life_years >= 1 /\ e.before.cost > e.before.carcass_value)
            /\ (e.before.life_years >= 1 /\ Len(e.rows) < e.before.life_years) =>
                  e.after.remaining_amount <= e.after.carcass_value

\* C3 witness: a full schedule of three rows whose annual amount is not a
\* whole number of cents
C3_Witness ==
    \E e \in ScheduledEntries :
        /\ Eligible(e.before) /\ FromCreation(e.before)
        /\ e.before.life_years = 3
        /\ Len(e.rows) = 3
        /\ ~EvenlyDivides(e.before)

\* C4: an asset with life_years <= 0 is rejected before scheduling: its
\* annual amount is never computed, no division by zero happens and it
\* yields no rows.
C4_DegenerateLifeRejected ==
    /\ error # Some("ZeroDivisionError")
    /\ \A e \in Entries :
          e.before.life_years <= 0 => e.event \notin {"enter", "scheduled"}

\* C5: an asset that is not "FA" or has no purchase date is rejected by
\* validate with the reason that names the cause, has no row in the report
\* whatever its other fields, and keeps its remaining_amount and
\* last_depr_date.
C5_IneligibleYieldsNothing ==
    \A i \in 1..Len(assets) :
        ~Eligible(assets[i]) =>
            /\ Validate(assets[i]) =
                  [ok |-> FALSE,
                   reason |-> IF assets[i].item_type # FA
                              THEN "Not a Fixed Asset (FA)"
                              ELSE "Missing purchase date"]
            /\ \A k \in 1..Len(row_asset) : row_asset[k] # i
            /\ pc = "for_year" => idx # i
            /\ FromCreation(assets[i])
            /\ \A e \in Entries :
                  e.asset = i =>
                      /\ e.event \in {"skip_item", "skip_date", "invalid"}
                      /\ e.rows = <<>>
                      /\ e.after = e.before

\* C5 witness: a written report beside an asset turned away for its missing
\* purchase date and one turned away for its type
C5_Witness ==
    /\ pc = "returned"
    /\ ~IsNone(file)
    /\ \E e \in Entries :
          e.event = "invalid" /\ e.before.item_type = FA /\ IsNone(e.before.purchase_date)
    /\ \E e \in Entries :
          e.event = "invalid" /\ e.before.item_type # FA

\* C6: with an item filter that is not empty after trimming, every row
\* belongs to an asset whose item_no equals the filter once both are trimmed
\* and lower-cased, and every eligible asset that matches and passes the date
\* filter has its rows in the result; an empty or blank filter skips nothing.
C6_ItemFilter ==
    /\ \A e \in Entries :
          e.event = "skip_item" <=>
              (FilterGiven /\ Norm(e.before.item_no) # Norm(Get(item_no)))
    /\ FilterGiven =>
          \A k \in 1..Len(report_data) :
              Norm(report_data[k].item_no) = Norm(Get(item_no))
    /\ pc = "returned" =>
          \A i \in 1..Len(assets) :
              (/\ Eligible(assets[i])
               /\ FilterGiven => Norm(assets[i].item_no) = Norm(Get(item_no))
               /\ ~OutsideRange(assets[i])) =>
                  \E e \in ScheduledEntries :
                      e.asset = i /\ e.call = calls /\ e.rows = RowsOfAsset(i)

\* C6 witness: the filter " a004 " lets the rows of asset "A004" through and
\* skips another asset
C6_Witness ==
    /\ pc = "returned"
    /\ item_no = Some(A004Padded)
    /\ \E i \in 1..Len(assets) : assets[i].item_no = A004 /\ RowsOfAsset(i) # <<>>
    /\ \E e \in Entries : e.event = "skip_item"

\* C7: an asset that reaches the date filter is skipped exactly when a start
\* is given and its purchase date is before it, or an end is given and its
\* purchase date is after it; both bounds are inclusive and an absent bound
\* skips nothing.
C7_DateFilter ==
    \A e \in Entries :
        /\ e.event = "skip_date" => ~IsNone(e.before.purchase_date)
        /\ (e.event # "skip_item" /\ ~IsNone(e.before.purchase_date)) =>
              (e.event = "skip_date" <=> OutsideRange(e.before))

\* C7 witness: the range 2022-01-01..2023-12-31 skips a 2020-01-01 purchase
\* and schedules a 2022-03-15 purchase
C7_Witness ==
    /\ purchase_date_range =
          Some(<<Some(Date(2022, 1, 1)), Some(Date(2023, 12, 31))>>)
    /\ \E e \in Entries :
          e.event = "skip_date" /\ e.before.purchase_date = Some(Date(2020, 1, 1))
    /\ \E e \in ScheduledEntries :
          e.before.purchase_date = Some(Date(2022, 3, 15)) /\ e.rows # <<>>

\* C8: when the report has no rows the run ends in a "no data" outcome of
\* its own: no file is written and index does not go on to the download.
C8_NoDataIsDistinct ==
    result = Some(NoDataMessage) =>
        (IsNone(file) /\ response # Some("redirect_download"))

\* the rows' years run up one by one from y0, each row dated December 31
ConsecutiveYears(rs, y0) ==
    \A k \in 1..Len(rs) :
        /\ rs[k].year = y0 + k - 1
        /\ rs[k].last_depr_date = Some(Date(rs[k].year, 12, 31))

\* C9: the rows follow the input order of their assets; within an asset the
\* years are consecutive and ascending from the year of last_depr_date at
\* the start of the scheduling; each row is dated December 31 of its year and
\* carries the remaining amount as it is after that year's decrement (in the
\* report's two decimals).
C9_RowOrder ==
    /\ \A k \in 1..(Len(row_asset) - 1) : row_asset[k] <= row_asset[k + 1]
    /\ pc \in {"for_asset", "returned", "done"} => report_data = RowsLogged(Len(log))
    /\ \A e \in ScheduledEntries :
          ConsecutiveYears(e.rows, Get(e.before.last_depr_date).year)
    /\ pc = "for_year" =>
          /\ ConsecutiveYears(data, Get(log[Len(log)].before.last_depr_date).year)
          /\ data # <<>> =>
                /\ data[Len(data)].remaining = Round2(assets[idx].remaining_amount)
                /\ data[Len(data)].last_depr_date = assets[idx].last_depr_date
                /\ data[Len(data)].year = year - 1

\* C9 witness: a report whose rows come from two assets, several rows each
C9_Witness ==
    /\ pc = "returned"
    /\ \E i, j \in 1..Len(assets) :
          i < j /\ Len(RowsOfAsset(i)) >= 2 /\ Len(RowsOfAsset(j)) >= 2

\* C10: a completed scheduling of an eligible asset with cost > carcass_value
\* leaves remaining_amount = carcass_value and last_depr_date = December 31
\* of the last scheduled year, so that a later scheduling of the same object
\* emits no rows; no other field of the asset changes.  Stated for the assets
\* the data model admits.
C10_SecondRunEmitsNothing ==
    \A e \in ScheduledEntries :
        (Eligible(e.before) /\ WellFormed(e.before)
         /\ e.before.cost > e.before.carcass_value) =>
            /\ e.after.remaining_amount = e.after.carcass_value
            /\ e.rows # <<>> =>
                  e.after.last_depr_date = Some(YearEnd(e.rows[Len(e.rows)].year))
            /\ [e.after EXCEPT !.remaining_amount = e.before.remaining_amount,
                               !.last_depr_date = e.before.last_depr_date] = e.before
            /\ \A e2 \in ScheduledEntries :
                  (e2.asset = e.asset /\ e2.call > e.call) => e2.rows = <<>>

====
